---- MODULE Spec2Model ----
(***************************************************************************)
(* Model of bs.py, the Runway Playa Vista event scraper.                   *)
(*                                                                         *)
(* A string is a sequence of tokens; a token is one character ("a", ",",   *)
(* " ", "\n", "/") or an unbreakable literal of the program (a sentinel    *)
(* such as "No title found", the site origin).  Python's None is modelled  *)
(* by a presence flag next to the value.                                   *)
(***************************************************************************)
EXTENDS Integers, Sequences, FiniteSets, TLC

VARIABLES pc, listing_response, clock_ticks, listing_raised, events, idx,
          response, details, detailed_events, in_flight, started,
          naps, slept, writes, file, extracted

vars == <<pc, listing_response, clock_ticks, listing_raised, events, idx,
          response, details, detailed_events, in_flight, started,
          naps, slept, writes, file, extracted>>

(***************************************************************************)
(* Bounds of the model.                                                    *)
(***************************************************************************)
MaxAnchors == 2
MaxDateLen == 4
MaxDescLen == 5

(***************************************************************************)
(* Strings.                                                                *)
(***************************************************************************)
Whitespace == {" ", "\n"}

SeqsUpTo(S, n) == UNION {[1..k -> S] : k \in 0..n}

RECURSIVE lstrip(_)
lstrip(s) ==
    IF s # <<>> /\ Head(s) \in Whitespace THEN lstrip(Tail(s)) ELSE s

RECURSIVE rstrip(_)
rstrip(s) ==
    IF s # <<>> /\ s[Len(s)] \in Whitespace
    THEN rstrip(SubSeq(s, 1, Len(s) - 1)) ELSE s

\* str.strip()
strip(s) == rstrip(lstrip(s))

\* separator.join(strings)
RECURSIVE join(_, _)
join(separator, strings) ==
    IF strings = <<>> THEN <<>>
    ELSE IF Len(strings) = 1 THEN strings[1]
    ELSE strings[1] \o separator \o join(separator, Tail(strings))

\* Tag._all_strings(strip=True): every text node stripped, the empty ones skipped
RECURSIVE all_strings_stripped(_)
all_strings_stripped(strings) ==
    IF strings = <<>> THEN <<>>
    ELSE LET s == strip(Head(strings))
         IN  IF s = <<>> THEN all_strings_stripped(Tail(strings))
             ELSE <<s>> \o all_strings_stripped(Tail(strings))

\* Tag.get_text(separator, strip=True)
get_text(elem, separator) == join(separator, all_strings_stripped(elem.strings))

\* Tag.get(attribute, default) for the one attribute the code reads of the element
get(elem, default) == IF elem.has_attr THEN elem.attr ELSE default

\* the least index at which sep occurs in s, 0 when it does not occur
find(s, sep) ==
    LET hits == {k \in 1..(Len(s) - Len(sep) + 1) :
                    SubSeq(s, k, k + Len(sep) - 1) = sep}
    IN  IF hits = {} THEN 0
        ELSE CHOOSE k \in hits : \A j \in hits : k <= j

\* str.split(sep, 1)
split_once(s, sep) ==
    LET k == find(s, sep)
    IN  IF k = 0 THEN <<s>>
        ELSE <<SubSeq(s, 1, k - 1), SubSeq(s, k + Len(sep), Len(s))>>

\* re.sub(r'\s\s', ' ', s): every pair of whitespace characters becomes one space
RECURSIVE re_sub_whitespace_pairs(_)
re_sub_whitespace_pairs(s) ==
    IF s = <<>> THEN <<>>
    ELSE IF Len(s) >= 2 /\ s[1] \in Whitespace /\ s[2] \in Whitespace
    THEN <<" ">> \o re_sub_whitespace_pairs(Tail(Tail(s)))
    ELSE <<Head(s)>> \o re_sub_whitespace_pairs(Tail(s))

\* re.sub(r'\s+', ' ', s): every maximal run of whitespace becomes one space
RECURSIVE re_sub_whitespace(_)
re_sub_whitespace(s) ==
    IF s = <<>> THEN <<>>
    ELSE IF Head(s) \in Whitespace
    THEN <<" ">> \o re_sub_whitespace(lstrip(Tail(s)))
    ELSE <<Head(s)>> \o re_sub_whitespace(Tail(s))

(***************************************************************************)
(* Markup: an element is absent, or has text nodes and at most the one     *)
(* attribute the code reads of it.                                         *)
(***************************************************************************)
NoElem == [present |-> FALSE, strings |-> <<>>, has_attr |-> FALSE, attr |-> <<>>]
Elem(strings) == [present |-> TRUE, strings |-> strings, has_attr |-> FALSE, attr |-> <<>>]
ElemAttr(strings, attr) == [present |-> TRUE, strings |-> strings, has_attr |-> TRUE, attr |-> attr]

ElementNames == {"title_elem", "date_elem", "start_time_elem", "end_time_elem",
                 "book_link_elem", "desc_elem"}

\* a detail page with every element the selectors look for
FullPage ==
    [title_elem      |-> Elem(<<<<" ", "T", "a">>>>),
     date_elem       |-> ElemAttr(<<<<"W", ",", " ", "A", ",", " ", "Y">>>>, <<"2025-08-06">>),
     start_time_elem |-> Elem(<<<<"6", "p">>>>),
     end_time_elem   |-> Elem(<<<<"9", "p">>>>),
     book_link_elem  |-> ElemAttr(<<<<"R", "S", "V", "P">>>>, <<"https://book.example/x">>),
     desc_elem       |-> Elem(<<<<"a", " ", "\n">>, <<" ">>, <<"b", "\n", "\n", "c">>>>)]

\* page with the elements outside keep removed
Restrict(page, keep) ==
    [e \in ElementNames |-> IF e \in keep THEN page[e] ELSE NoElem]

EmptyPage == Restrict(FullPage, {})

(***************************************************************************)
(* Exceptions.  requests.ConnectionError and requests.HTTPError are        *)
(* RequestExceptions, every class here is an Exception.                    *)
(***************************************************************************)
NoException == [raised |-> FALSE, class |-> "", text |-> <<>>]
Raise(class, text) == [raised |-> TRUE, class |-> class, text |-> text]

RequestExceptionClasses == {"ConnectionError", "HTTPError"}
ExceptionClasses == RequestExceptionClasses \cup {"Exception"}

\* requests.get(url, headers) followed by response.raise_for_status(), then
\* BeautifulSoup(response.content, 'html.parser') and the selectors
FetchAndParse(resp) ==
    IF ~resp.connected THEN Raise("ConnectionError", <<"connection failed">>)
    ELSE IF resp.status >= 400 /\ resp.status < 600
    THEN Raise("HTTPError", IF resp.status < 500 THEN <<"4xx Client Error">>
                            ELSE <<"5xx Server Error">>)
    ELSE IF resp.parse_fails THEN Raise("Exception", <<"parse error">>)
    ELSE NoException

(***************************************************************************)
(* scrape_event_details                                                    *)
(***************************************************************************)
Sentinel(field) ==
    CASE field = "title"       -> <<"No title found">>
      [] field = "date"        -> <<"No date found">>
      [] field = "start_time"  -> <<"No start time found">>
      [] field = "end_time"    -> <<"No end time found">>
      [] field = "description" -> <<"No description found">>
      [] OTHER                 -> <<>>

DateField(full_date_text) ==
    LET date_parts == split_once(full_date_text, <<",", " ">>)
    IN  IF Len(date_parts) > 1 THEN date_parts[2] ELSE full_date_text

DetailErrorRecord(e) ==
    [title       |-> <<>>,
     date        |-> <<>>,
     start_time  |-> <<>>,
     end_time    |-> <<>>,
     book_link   |-> <<>>,
     description |-> <<"Error:", " ">> \o e.text]

\* details['title']
Title(soup) ==
    IF soup.title_elem.present
    THEN get_text(soup.title_elem, <<>>) ELSE Sentinel("title")

\* details['date']
Date(soup) ==
    IF soup.date_elem.present
    THEN DateField(get_text(soup.date_elem, <<>>)) ELSE Sentinel("date")

\* details['date_datetime']
DateDatetime(soup) ==
    IF soup.date_elem.present THEN get(soup.date_elem, <<>>) ELSE <<>>

\* details['start_time']
StartTime(soup) ==
    IF soup.start_time_elem.present
    THEN get_text(soup.start_time_elem, <<>>) ELSE Sentinel("start_time")

\* the end time guarded by the start time's element
EndTimeIfStartTime(soup) ==
    IF soup.start_time_elem.present
    THEN get_text(soup.end_time_elem, <<>>) ELSE Sentinel("end_time")

\* details['end_time']
EndTime(soup) ==
    IF soup.end_time_elem.present
    THEN get_text(soup.end_time_elem, <<>>) ELSE Sentinel("end_time")

\* details['book_link']
BookLink(soup) ==
    IF soup.book_link_elem.present THEN get(soup.book_link_elem, <<>>) ELSE <<>>

\* details['book_link_text']
BookLinkText(soup) ==
    IF soup.book_link_elem.present THEN get_text(soup.book_link_elem, <<>>) ELSE <<>>

\* details['description']
Description(soup) ==
    IF soup.desc_elem.present
    THEN re_sub_whitespace(get_text(soup.desc_elem, <<" ">>))
    ELSE Sentinel("description")

ExtractFields(soup) ==
    [title          |-> Title(soup),
     date           |-> Date(soup),
     date_datetime  |-> DateDatetime(soup),
     start_time     |-> StartTime(soup),
     end_time       |-> EndTime(soup),
     book_link      |-> BookLink(soup),
     book_link_text |-> BookLinkText(soup),
     description    |-> Description(soup)]

\* try: ... return details / except Exception as e: return {...}
scrape_event_details(resp) ==
    LET e == FetchAndParse(resp)
    IN  IF e.raised /\ e.class \in ExceptionClasses THEN DetailErrorRecord(e)
        ELSE ExtractFields(resp.page)

(***************************************************************************)
(* scrape_runway_events                                                    *)
(***************************************************************************)
SiteOrigin == <<"https://www.runwayplayavista.com">>

\* the literal the code prepends to every href
UrlPrefix == SiteOrigin \o <<"/">>

EventUrl(href) == UrlPrefix \o href

\* link.get_text(strip=True) or link.get('title', 'No title')
AnchorTitle(link) ==
    LET text == get_text(link, <<>>)
    IN  IF text # <<>> THEN text ELSE get(link, <<"No title">>)

\* the value of datetime.now() at its n-th call: the clock never runs backwards
Now(ticks, n) ==
    LET RECURSIVE Sum(_)
        Sum(k) == IF k = 0 THEN 0 ELSE ticks[k] + Sum(k - 1)
    IN  Sum(n)

\* for link in event_links: if href: events.append(event_info)
RECURSIVE HarvestLoop(_, _, _)
HarvestLoop(event_links, ticks, acc) ==
    IF event_links = <<>> THEN acc
    ELSE LET link == Head(event_links)
         IN  IF link.has_href /\ link.href # <<>>
             THEN HarvestLoop(Tail(event_links), ticks,
                      Append(acc, [title      |-> AnchorTitle(link),
                                   url        |-> EventUrl(link.href),
                                   scraped_at |-> Now(ticks, Len(acc) + 1)]))
             ELSE HarvestLoop(Tail(event_links), ticks, acc)

\* the body of the try block: the exception it ends with, or the value it returns
HarvestBody(resp, ticks) ==
    LET e == FetchAndParse(resp)
    IN  IF e.raised THEN [exc |-> e, ret |-> <<>>]
        ELSE IF resp.iterate_fails
        THEN [exc |-> Raise("Exception", <<"iteration error">>), ret |-> <<>>]
        ELSE [exc |-> NoException, ret |-> HarvestLoop(resp.event_links, ticks, <<>>)]

\* except requests.RequestException alone: any other exception reaches the caller
scrape_runway_events_request_only(resp, ticks) ==
    LET body == HarvestBody(resp, ticks)
    IN  IF ~body.exc.raised THEN [raised |-> FALSE, ret |-> body.ret]
        ELSE IF body.exc.class \in RequestExceptionClasses
        THEN [raised |-> FALSE, ret |-> <<>>]
        ELSE [raised |-> TRUE, ret |-> <<>>]

scrape_runway_events(resp, ticks) ==
    LET body == HarvestBody(resp, ticks)
    IN  IF ~body.exc.raised THEN [raised |-> FALSE, ret |-> body.ret]
        ELSE IF body.exc.class \in RequestExceptionClasses
        THEN [raised |-> FALSE, ret |-> <<>>]
        ELSE IF body.exc.class \in ExceptionClasses
        THEN [raised |-> FALSE, ret |-> <<>>]
        ELSE [raised |-> TRUE, ret |-> <<>>]

(***************************************************************************)
(* What the site may answer.                                               *)
(***************************************************************************)
Statuses == {200, 404, 500}

NoAnchor == [has_href |-> FALSE, href |-> <<>>, strings |-> <<>>,
             has_attr |-> FALSE, attr |-> <<>>]

\* the anchors a listing page is made of
Anchors ==
    {[has_href |-> TRUE, href |-> <<"/", "events2", "/", "event-a">>,
      strings |-> <<<<" ", "A">>>>, has_attr |-> FALSE, attr |-> <<>>],
     [has_href |-> TRUE, href |-> <<"/", "events2", "/", "event-b">>,
      strings |-> <<<<" ">>>>, has_attr |-> TRUE, attr |-> <<"B">>],
     [has_href |-> TRUE, href |-> SiteOrigin \o <<"/", "events2", "/", "event-c">>,
      strings |-> <<>>, has_attr |-> FALSE, attr |-> <<>>],
     [has_href |-> TRUE, href |-> <<>>,
      strings |-> <<<<"D">>>>, has_attr |-> FALSE, attr |-> <<>>],
     NoAnchor}

ListingResponses ==
    [connected : BOOLEAN, status : Statuses, parse_fails : BOOLEAN,
     iterate_fails : BOOLEAN, event_links : SeqsUpTo(Anchors, MaxAnchors)]

\* the listing responses that differ in what the code does with them
ListingInputs ==
    {r \in ListingResponses :
        /\ ~r.connected => r.status = 200 /\ ~r.parse_fails
        /\ r.status # 200 => ~r.parse_fails
        /\ r.parse_fails => ~r.iterate_fails
        /\ (~r.connected \/ r.status # 200 \/ r.parse_fails \/ r.iterate_fails)
              => Len(r.event_links) = MaxAnchors}

Ticks == [1..MaxAnchors -> {0, 1}]

DetailResponse(connected, status, parse_fails, page) ==
    [connected |-> connected, status |-> status, parse_fails |-> parse_fails,
     page |-> page]

NoResponse == DetailResponse(TRUE, 200, FALSE, EmptyPage)

\* the answers to a detail fetch during a run
DetailInputs ==
    {DetailResponse(FALSE, 200, FALSE, FullPage),
     DetailResponse(TRUE, 404, FALSE, FullPage),
     DetailResponse(TRUE, 200, TRUE, FullPage),
     DetailResponse(TRUE, 200, FALSE, FullPage),
     DetailResponse(TRUE, 200, FALSE, Restrict(FullPage, {"date_elem", "desc_elem"}))}

NoDetails == [description |-> <<>>]

(***************************************************************************)
(* The run of the script: __main__ and scrape_all_event_details.           *)
(***************************************************************************)
SleepSeconds == 1

Running == {"main", "if_events", "for", "get", "combine", "sleep", "dump"}

Init ==
    /\ pc = "main"
    /\ listing_response \in ListingInputs
    /\ clock_ticks \in Ticks
    /\ listing_raised = FALSE
    /\ events = <<>>
    /\ idx = 0
    /\ response = NoResponse
    /\ details = NoDetails
    /\ detailed_events = <<>>
    /\ in_flight = 0
    /\ started = 0
    /\ naps = 0
    /\ slept = 0
    /\ writes = 0
    /\ file = <<>>
    /\ extracted = <<>>

\* events = scrape_runway_events()
CallScrapeRunwayEvents ==
    /\ pc = "main"
    /\ LET r == scrape_runway_events(listing_response, clock_ticks)
       IN  /\ listing_raised' = r.raised
           /\ events' = r.ret
           /\ pc' = IF r.raised THEN "crashed" ELSE "if_events"
    /\ UNCHANGED <<listing_response, clock_ticks, idx, response, details,
                   detailed_events, in_flight, started, naps, slept, writes, file, extracted>>

\* if events: ... else: print("No events found to scrape details for.")
IfEvents ==
    /\ pc = "if_events"
    /\ pc' = IF events # <<>> THEN "for" ELSE "done"
    /\ UNCHANGED <<listing_response, clock_ticks, listing_raised, events, idx, response,
                   details, detailed_events, in_flight, started, naps, slept,
                   writes, file, extracted>>

\* for i, event in enumerate(events, 1): the request of scrape_event_details leaves
StartDetailFetch ==
    /\ pc = "for"
    /\ idx < Len(events)
    /\ in_flight' = in_flight + 1
    /\ started' = started + 1
    /\ pc' = "get"
    /\ UNCHANGED <<listing_response, clock_ticks, listing_raised, events, idx, response,
                   details, detailed_events, naps, slept, writes, file, extracted>>

\* details = scrape_event_details(event['url']): the request ends, with a
\* response or a failure, and the record of the page is built
FinishDetailFetch ==
    /\ pc = "get"
    /\ \E r \in DetailInputs :
          /\ response' = r
          /\ details' = scrape_event_details(r)
          /\ extracted' = Append(extracted, scrape_event_details(r))
    /\ in_flight' = in_flight - 1
    /\ pc' = "combine"
    /\ UNCHANGED <<listing_response, clock_ticks, listing_raised, events, idx,
                   detailed_events, started, naps, slept, writes, file>>

\* {'url': event['url'], 'scraped_at': event['scraped_at'], **event}: the key of
\* the reference wins
CombineReferenceFirst(event, d) ==
    [k \in DOMAIN event \cup DOMAIN d |-> IF k \in DOMAIN event THEN event[k] ELSE d[k]]

\* {'url': event['url'], 'scraped_at': event['scraped_at'], **details}
Combine(event, d) ==
    [k \in {"url", "scraped_at"} \cup DOMAIN d |->
        IF k \in DOMAIN d THEN d[k] ELSE event[k]]

\* detailed_events.insert(0, detailed_event)
AppendFront(seq, detailed_event) == <<detailed_event>> \o seq

\* detailed_events.append(detailed_event)
AppendRecord(seq, detailed_event) == Append(seq, detailed_event)

\* the document is rewritten after every record
CombineAppendAndDump ==
    /\ pc = "combine"
    /\ detailed_events' = AppendRecord(detailed_events, Combine(events[idx + 1], details))
    /\ file' = detailed_events'
    /\ writes' = writes + 1
    /\ pc' = "sleep"
    /\ UNCHANGED <<listing_response, clock_ticks, listing_raised, events, idx, response,
                   details, in_flight, started, naps, slept, extracted>>

CombineAndAppend ==
    /\ pc = "combine"
    /\ detailed_events' = AppendRecord(detailed_events, Combine(events[idx + 1], details))
    /\ pc' = "sleep"
    /\ UNCHANGED <<listing_response, clock_ticks, listing_raised, events, idx, response,
                   details, in_flight, started, naps, slept, writes, file, extracted>>

\* the pause is skipped after an extraction that failed
PauseAfterSuccessOnly(d) == IF "date_datetime" \in DOMAIN d THEN SleepSeconds ELSE 0

\* time.sleep(1), whatever the extraction returned
Pause(d) == SleepSeconds

Sleep ==
    /\ pc = "sleep"
    /\ naps' = naps + (IF Pause(details) > 0 THEN 1 ELSE 0)
    /\ slept' = slept + Pause(details)
    /\ idx' = idx + 1
    /\ pc' = "for"
    /\ UNCHANGED <<listing_response, clock_ticks, listing_raised, events, response,
                   details, detailed_events, in_flight, started, writes, file, extracted>>

\* return detailed_events
ReturnDetailedEvents ==
    /\ pc = "for"
    /\ idx = Len(events)
    /\ pc' = "dump"
    /\ UNCHANGED <<listing_response, clock_ticks, listing_raised, events, idx, response,
                   details, detailed_events, in_flight, started, naps, slept,
                   writes, file, extracted>>

\* with open(...) as f: json.dump(detailed_events, f, ...); open may raise OSError
DumpJson ==
    /\ pc = "dump"
    /\ \E opened \in BOOLEAN :
          IF opened
          THEN /\ file' = detailed_events
               /\ writes' = writes + 1
               /\ pc' = "done"
          ELSE /\ pc' = "crashed"
               /\ UNCHANGED <<file, writes>>
    /\ UNCHANGED <<listing_response, clock_ticks, listing_raised, events, idx, response,
                   details, detailed_events, in_flight, started, naps, slept, extracted>>

\* the process is killed from outside before it has ended
Kill ==
    /\ pc \in Running
    /\ pc' = "killed"
    /\ UNCHANGED <<listing_response, clock_ticks, listing_raised, events, idx, response,
                   details, detailed_events, in_flight, started, naps, slept,
                   writes, file, extracted>>

Next ==
    \/ CallScrapeRunwayEvents
    \/ IfEvents
    \/ StartDetailFetch
    \/ FinishDetailFetch
    \/ CombineAndAppend
    \/ Sleep
    \/ ReturnDetailedEvents
    \/ DumpJson
    \/ Kill

Spec == Init /\ [][Next]_vars

(***************************************************************************)
(* One call of scrape_event_details, on every response of interest: every  *)
(* subset of the six elements missing, every short date text, every short  *)
(* description text, every kind of failure.                                *)
(***************************************************************************)
DateAlphabet == {"a", ",", " "}
DescAlphabet == {"a", " ", "\n"}

PagesByPresence == {Restrict(FullPage, keep) : keep \in SUBSET ElementNames}

PagesByDate ==
    {[FullPage EXCEPT !.date_elem = ElemAttr(<<t>>, <<"2025-08-06">>)] :
        t \in SeqsUpTo(DateAlphabet, MaxDateLen)}
    \cup {[FullPage EXCEPT !.date_elem = Elem(<<<<"T", "B", "D">>>>)]}

PagesByDescription ==
    {[FullPage EXCEPT !.desc_elem = Elem(<<t>>)] :
        t \in SeqsUpTo(DescAlphabet, MaxDescLen)}

DetailInputsWide ==
    {DetailResponse(FALSE, 200, FALSE, FullPage),
     DetailResponse(TRUE, 404, FALSE, FullPage),
     DetailResponse(TRUE, 500, FALSE, FullPage),
     DetailResponse(TRUE, 200, TRUE, FullPage)}
    \cup {DetailResponse(TRUE, 200, FALSE, page) :
             page \in PagesByPresence \cup PagesByDate \cup PagesByDescription}

InitDetail ==
    /\ pc = "detail_call"
    /\ response \in DetailInputsWide
    /\ listing_response = [connected |-> TRUE, status |-> 200, parse_fails |-> FALSE,
                           iterate_fails |-> FALSE, event_links |-> <<>>]
    /\ clock_ticks = [k \in 1..MaxAnchors |-> 0]
    /\ listing_raised = FALSE
    /\ events = <<>>
    /\ idx = 0
    /\ details = NoDetails
    /\ detailed_events = <<>>
    /\ in_flight = 0
    /\ started = 0
    /\ naps = 0
    /\ slept = 0
    /\ writes = 0
    /\ file = <<>>
    /\ extracted = <<>>

\* details = scrape_event_details(event_url)
CallScrapeEventDetails ==
    /\ pc = "detail_call"
    /\ details' = scrape_event_details(response)
    /\ extracted' = Append(extracted, scrape_event_details(response))
    /\ pc' = "detail_return"
    /\ UNCHANGED <<listing_response, clock_ticks, listing_raised, events, idx,
                   response, detailed_events, in_flight, started, naps, slept,
                   writes, file>>

NextDetail == CallScrapeEventDetails

SpecDetail == InitDetail /\ [][NextDetail]_vars

(***************************************************************************)
(* Properties.                                                             *)
(***************************************************************************)
\* the fetch or the parse of this response fails
Failed(resp) ==
    \/ ~resp.connected
    \/ resp.status \notin 200..299
    \/ resp.parse_fails

ListingFailed(resp) == Failed(resp) \/ resp.iterate_fails

OtherDetailFields ==
    {"title", "date", "date_datetime", "start_time", "end_time", "book_link",
     "book_link_text"}

\* C2: when a detail fetch or parse fails, the record scrape_event_details
\* returns has a description that starts with "Error:" and each of title, date,
\* date_raw (date_datetime in the code), start_time, end_time, book_link and
\* book_link_text is present and is the empty string.
C2_ErrorRecordHasEveryFieldEmpty ==
    (pc = "detail_return" /\ Failed(response)) =>
        /\ "description" \in DOMAIN details
        /\ Len(details.description) > 0
        /\ Head(details.description) = "Error:"
        /\ \A f \in OtherDetailFields : f \in DOMAIN details /\ details[f] = <<>>

\* as many records as references at the end, and the k-th record carries the
\* url and scraped_at of the k-th reference
C3_Positions ==
    /\ Len(detailed_events) <= Len(events)
    /\ pc \in {"dump", "done"} => Len(detailed_events) = Len(events)
    /\ \A k \in 1..Len(detailed_events) :
          /\ detailed_events[k].url = events[k].url
          /\ detailed_events[k].scraped_at = events[k].scraped_at

\* a step keeps every record already appended, at its place
C3_SiblingsKept ==
    /\ Len(detailed_events') >= Len(detailed_events)
    /\ \A k \in 1..Len(detailed_events) : detailed_events'[k] = detailed_events[k]

\* C3: scrape_all_event_details returns as many records as it was given
\* references, the k-th record carries the url and scraped_at of the k-th
\* reference whatever detail fetches failed, and a record once appended is
\* never changed, dropped or moved.
C3_OneRecordPerReferenceInOrder == []C3_Positions /\ [][C3_SiblingsKept]_vars

C3_Witness ==
    /\ pc = "done"
    /\ Len(events) = 2
    /\ Len(detailed_events) = 2
    /\ events[1].url # events[2].url
    /\ events[1].scraped_at # events[2].scraped_at
    /\ Head(detailed_events[1].description) = "Error:"
    /\ Head(detailed_events[2].description) # "Error:"

EightFields == OtherDetailFields \cup {"description"}

\* the element each field is read from
ElementOf(field) ==
    CASE field = "title"          -> "title_elem"
      [] field = "date"           -> "date_elem"
      [] field = "date_datetime"  -> "date_elem"
      [] field = "start_time"     -> "start_time_elem"
      [] field = "end_time"       -> "end_time_elem"
      [] field = "book_link"      -> "book_link_elem"
      [] field = "book_link_text" -> "book_link_elem"
      [] field = "description"    -> "desc_elem"

\* C4: when the detail page is fetched and parsed, the record has exactly the
\* eight fields whatever elements the page lacks; a field whose element is
\* absent holds its sentinel, and a field has the value it has on the page
\* that keeps its element alone and on the page that keeps every element,
\* so that the absence of another element never changes it.
C4_EightFieldsWithSentinels ==
    (pc = "detail_return" /\ ~Failed(response)) =>
        /\ DOMAIN details = EightFields
        /\ \A f \in EightFields :
              LET e == ElementOf(f)
                  alone == scrape_event_details(
                               [response EXCEPT !.page = Restrict(response.page, {e})])
              IN  /\ ~response.page[e].present => details[f] = Sentinel(f)
                  /\ details[f] = alone[f]
                  /\ response.page \in PagesByPresence /\ response.page[e].present
                        => details[f] = scrape_event_details(
                                            [response EXCEPT !.page = FullPage])[f]

C4_Witness ==
    /\ pc = "detail_return"
    /\ ~Failed(response)
    /\ response.page = Restrict(FullPage, {"date_elem", "end_time_elem"})
    /\ details.title = <<"No title found">>
    /\ details.start_time = <<"No start time found">>
    /\ details.description = <<"No description found">>
    /\ details.book_link = <<>>
    /\ details.end_time = <<"9", "p">>
    /\ details.date = <<"A", ",", " ", "Y">>

\* the text after the first comma of s, less the one space that follows it
AfterFirstComma(s) ==
    LET k == find(s, <<",">>)
        rest == SubSeq(s, k + 1, Len(s))
    IN  IF rest # <<>> /\ Head(rest) = " " THEN Tail(rest) ELSE rest

\* C5: the date field is the date text after its first comma, less the leading
\* ", ", when the text has a comma, and the date text unchanged when it has none.
C5_DateAfterFirstComma ==
    (pc = "detail_return" /\ ~Failed(response) /\ response.page.date_elem.present) =>
        LET full_date_text == get_text(response.page.date_elem, <<>>)
        IN  details.date = IF find(full_date_text, <<",">>) > 0
                           THEN AfterFirstComma(full_date_text)
                           ELSE full_date_text

\* C6 as stated: every run that ends has written the document exactly once, and
\* nothing is written before every reference has been extracted.
C6_EveryRunWritesOnce ==
    /\ pc = "done" => writes = 1
    /\ writes > 0 => Len(detailed_events) = Len(events)

\* C6: a run writes the document at most once and only as its last step, after
\* the detail extraction of every listed reference; a run that ends with a
\* non-empty listing has written it exactly once, a run whose listing came out
\* empty ends without writing, and so does a run that is killed or whose file
\* cannot be opened.
C6_WriteOnceAtEndUnlessNoEvents ==
    /\ writes \in {0, 1}
    /\ writes = 1 => /\ pc = "done"
                     /\ events # <<>>
                     /\ Len(extracted) = Len(events)
                     /\ Len(detailed_events) = Len(events)
                     /\ file = detailed_events
    /\ (pc = "done" /\ events # <<>>) => writes = 1
    /\ events = <<>> => writes = 0
    /\ pc \in {"killed", "crashed"} => writes = 0 /\ file = <<>>

C6_Witness ==
    /\ pc = "done"
    /\ writes = 1
    /\ Len(events) = 2
    /\ file = detailed_events
    /\ Len(file) = 2

\* C7: the title of every output record is the title scrape_event_details
\* returned for that record (heading text, sentinel or empty), the title of the
\* reference is dropped even when it differs, and url and scraped_at are those
\* of the reference.
C7_TitleFromDetailPage ==
    /\ Len(detailed_events) <= Len(extracted)
    /\ \A k \in 1..Len(detailed_events) :
          /\ detailed_events[k].title = extracted[k].title
          /\ "title" \in DOMAIN events[k]
          /\ detailed_events[k].url = events[k].url
          /\ detailed_events[k].scraped_at = events[k].scraped_at

C7_Witness ==
    /\ Len(detailed_events) = 2
    /\ detailed_events[1].title = <<"T", "a">>
    /\ events[1].title = <<"A">>
    /\ detailed_events[2].title = <<>>
    /\ events[2].title = <<"B">>

\* the hrefs of the anchors the harvester emits a reference for
EmittedHrefs(event_links) ==
    LET kept == SelectSeq(event_links, LAMBDA link : link.has_href /\ link.href # <<>>)
    IN  [k \in 1..Len(kept) |-> kept[k].href]

\* C8: the url of every reference is the site origin
\* "https://www.runwayplayavista.com" followed by the href, nothing inserted.
C8_UrlIsOriginThenHref ==
    pc # "main" =>
        \A k \in 1..Len(events) :
            events[k].url = SiteOrigin \o EmittedHrefs(listing_response.event_links)[k]

\* C9: collapsing the whitespace of a description that was already collapsed
\* changes nothing.
C9_CollapseIdempotent ==
    (pc = "detail_return" /\ ~Failed(response) /\ response.page.desc_elem.present) =>
        re_sub_whitespace(details.description) = details.description

C9_Witness ==
    /\ pc = "detail_return"
    /\ ~Failed(response)
    /\ response.page.desc_elem.strings = <<<<"a", " ", "\n", " ", "a">>>>
    /\ details.description = <<"a", " ", "a">>

\* C10: at most one detail fetch is in progress; a fetch starts only when the
\* records of all earlier fetches are appended and their pauses taken; every
\* extraction, failed or not, is followed by exactly one pause of one second.
C10_SequentialAndPaced ==
    /\ in_flight \in {0, 1}
    /\ started = Len(extracted) + in_flight
    /\ in_flight = 1 => /\ Len(detailed_events) = started - 1
                        /\ naps = started - 1
    /\ naps = idx
    /\ slept = SleepSeconds * naps
    /\ Len(detailed_events) - naps \in {0, 1}
    /\ pc \in {"for", "get", "dump", "done"} => naps = Len(extracted)

C10_Witness ==
    /\ pc = "get"
    /\ started = 2
    /\ in_flight = 1
    /\ Head(detailed_events[1].description) = "Error:"
    /\ naps = 1
    /\ slept = 1

====
